---- MODULE Spec2Model ----
(***************************************************************************)
(* A model of tawhiri/api.py: the request validator                        *)
(* (parse_prediction_request, _extract_parameter), the dataset time        *)
(* bucketing (_date_to_dataset_name, hour_to_nearest_dataset), the         *)
(* acquisition trigger (_is_old_dataset, _download_old_dataset,            *)
(* touch_file) and the request pipeline (main, parse_request,              *)
(* run_prediction, handle_exception).                                      *)
(***************************************************************************)
EXTENDS Integers, Sequences, FiniteSets, TLC

VARIABLES
    pdata,      \* SpecParse: the parameter map given to parse_prediction_request
    pelev,      \* SpecParse: what the elevation lookup would answer if called
    pres,       \* SpecParse: the outcome of parse_prediction_request, or NotRun
    btime,      \* SpecBucket: the launch timestamp given to _date_to_dataset_name
    bres,       \* SpecBucket: what _date_to_dataset_name returned, or NotBucketed
    utcoffset,  \* the server zone's offset from UTC, in seconds
    clock,      \* the wall clock: time.time()
    ticks,      \* how often the clock has advanced
    index,      \* the filenames WindDataset.listdir() yields
    files,      \* the marker files under /srv: path -> size
    quota,      \* per worker, the requests it will still take
    mode,       \* "sequential" or "concurrent": which requests clients send
    pc,         \* per worker, its position in main / run_prediction
    args,       \* per worker, request.args of the request it handles
    request,    \* per worker, the req dict (resp['request'] is the same dict)
    solved,     \* per worker, what solver.solve returned
    resp,       \* per worker, the response sent
    hist,       \* per worker, what the request has done so far
    elevation   \* ruaumoko_ds: the handle last built and how many were built

pvars == <<pdata, pelev, pres>>

bvars == <<btime, bres>>

rvars == <<utcoffset, clock, ticks, index, files, quota, mode, pc, args, request,
           solved, resp, hist, elevation>>

vars == <<pvars, bvars, rvars>>

(***************************************************************************)
(* Values.  A request parameter is text (request.args); the model keeps    *)
(* three kinds of text: a decimal number, an RFC3339 timestamp, and any    *)
(* other word.  A Python value is None, a float, a str (which keeps the    *)
(* text it was made from), or a key the dict does not hold.                *)
(***************************************************************************)
Absent == [k |-> "absent", n |-> 0, s |-> ""]

NumTxt(x) ==
    [k |-> "num", n |-> x, s |-> ""]

RfcTxt(t) ==
    [k |-> "rfc", n |-> t, s |-> ""]

Word(w) ==
    [k |-> "word", n |-> 0, s |-> w]

PyNone == [t |-> "None", k |-> "", n |-> 0, s |-> ""]

PyUnset == [t |-> "unset", k |-> "", n |-> 0, s |-> ""]

PyFloat(x) ==
    [t |-> "float", k |-> "", n |-> x, s |-> ""]

PyStr(raw) ==
    [t |-> "str", k |-> raw.k, n |-> raw.n, s |-> raw.s]

API_VERSION == 1

LATEST_DATASET_KEYWORD == PyStr(Word("latest"))

PROFILE_STANDARD == PyStr(Word("standard_profile"))

PROFILE_FLOAT == PyStr(Word("float_profile"))

\* the default of _extract_parameter's `default` argument
DEFAULT_DEFAULT == PyStr(Word("prediction"))

(***************************************************************************)
(* The casts handed to _extract_parameter: float, str and                  *)
(* _rfc3339_to_timestamp.  A cast answers a value or raises.               *)
(***************************************************************************)
Raised(kind) ==
    [exc |-> kind, val |-> PyUnset]

Returned(v) ==
    [exc |-> "none", val |-> v]

CastFloat(raw) ==
    IF raw.k = "num" THEN Returned(PyFloat(raw.n)) ELSE Raised("ValueError")

CastStr(raw) ==
    Returned(PyStr(raw))

Rfc3339ToTimestamp(raw) ==
    IF raw.k = "rfc" THEN Returned(PyFloat(raw.n)) ELSE Raised("InvalidRFC3339Error")

Cast(cast, raw) ==
    CASE cast = "float" -> CastFloat(raw)
      [] cast = "str" -> CastStr(raw)
      [] cast = "rfc3339" -> Rfc3339ToTimestamp(raw)

(***************************************************************************)
(* The validators (the lambdas of parse_prediction_request).  Each answers *)
(* "true" or "false", or "TypeError" when Python cannot order a float and  *)
(* a str.                                                                  *)
(***************************************************************************)
Truth(b) ==
    IF b THEN "true" ELSE "false"

LatitudeValidator(x) ==
    Truth(-90 <= x.n /\ x.n <= 90)

LongitudeValidator(x) ==
    Truth(0 <= x.n /\ x.n < 360)

\* a rate check that lets zero through
RateValidatorNonNegative(x) ==
    Truth(x.n >= 0)

RateValidator(x) ==
    Truth(x.n > 0)

\* lambda x: x > launch_alt   and   lambda x: x > req['launch_datetime']
GreaterThan(x, y) ==
    IF y.t = "float" THEN Truth(x.n > y.n) ELSE "TypeError"

Validate(validator, x, req) ==
    CASE validator = "none" -> "true"
      [] validator = "latitude" -> LatitudeValidator(x)
      [] validator = "longitude" -> LongitudeValidator(x)
      [] validator = "rate" -> RateValidator(x)
      [] validator = "above_launch_alt" -> GreaterThan(x, req.launch_altitude)
      [] validator = "after_launch" -> GreaterThan(x, req.launch_datetime)

(***************************************************************************)
(* _extract_parameter.  The outcome names the exception raised ("none"     *)
(* when it returns), the parameter, and the message's form.                *)
(***************************************************************************)
Extracted(parameter, v) ==
    [exc |-> "none", field |-> parameter, msg |-> "", val |-> v]

ExtractRaised(kind, parameter, msg) ==
    [exc |-> kind, field |-> parameter, msg |-> msg, val |-> PyUnset]

ExtractMissing(parameter, default, ignore) ==
    IF default = PyNone /\ ~ignore
    THEN ExtractRaised("RequestException", parameter, "not provided")
    ELSE Extracted(parameter, default)

ExtractParameter(data, parameter, cast, default, ignore, validator, req) ==
    IF data[parameter] = Absent
    THEN ExtractMissing(parameter, default, ignore)
    ELSE LET c == Cast(cast, data[parameter])
         IN  IF c.exc # "none"
             THEN ExtractRaised("RequestException", parameter, "unable to parse")
             ELSE LET ok == Validate(validator, c.val, req)
                  IN  CASE ok = "true" -> Extracted(parameter, c.val)
                        [] ok = "false" ->
                             ExtractRaised("RequestException", parameter, "invalid value")
                        [] OTHER -> ExtractRaised("TypeError", parameter, "")

(***************************************************************************)
(* parse_prediction_request.  `elev` is what ruaumoko_ds().get would       *)
(* answer for the request's position: a value, or an exception.            *)
(***************************************************************************)
Fields ==
    {"type", "launch_latitude", "launch_longitude", "launch_datetime",
     "launch_altitude", "profile", "ascent_rate", "burst_altitude",
     "descent_rate", "float_altitude", "stop_datetime", "dataset"}

ReqKeys ==
    (Fields \ {"type"}) \cup {"version", "dataset_time"}

EmptyReq ==
    [key \in ReqKeys |-> IF key = "version" THEN PyFloat(API_VERSION) ELSE PyUnset]

ParseOk(req, lookups) ==
    [exc |-> "none", field |-> "", msg |-> "", req |-> req, lookups |-> lookups]

ParseRaised(kind, field, msg, lookups) ==
    [exc |-> kind, field |-> field, msg |-> msg, req |-> EmptyReq, lookups |-> lookups]

ParseFailed(r, lookups) ==
    ParseRaised(r.exc, r.field, r.msg, lookups)

\* req['dataset'] = _extract_parameter(data, "dataset", ...); return req
ParseDataset(data, req, lookups) ==
    LET r == ExtractParameter(data, "dataset", "rfc3339", LATEST_DATASET_KEYWORD,
                              FALSE, "none", req)
    IN  IF r.exc # "none" THEN ParseFailed(r, lookups)
        ELSE ParseOk([req EXCEPT !.dataset = r.val], lookups)

\* the three extractions of one profile branch: ascent_rate, then the
\* altitude field f2, then the field f3 with its cast c3 and validator v3
ParseBranch(data, req, lookups, f2, f3, c3, v3) ==
    LET r1 == ExtractParameter(data, "ascent_rate", "float", DEFAULT_DEFAULT,
                               FALSE, "rate", req)
    IN  IF r1.exc # "none" THEN ParseFailed(r1, lookups) ELSE
        LET req1 == [req EXCEPT !.ascent_rate = r1.val]
            r2 == ExtractParameter(data, f2, "float", DEFAULT_DEFAULT,
                                   FALSE, "above_launch_alt", req1)
        IN  IF r2.exc # "none" THEN ParseFailed(r2, lookups) ELSE
            LET req2 == [req1 EXCEPT ![f2] = r2.val]
                r3 == ExtractParameter(data, f3, c3, DEFAULT_DEFAULT,
                                       FALSE, v3, req2)
            IN  IF r3.exc # "none" THEN ParseFailed(r3, lookups) ELSE
                ParseDataset(data, [req2 EXCEPT ![f3] = r3.val], lookups)

ParseStandard(data, req, lookups) ==
    ParseBranch(data, req, lookups, "burst_altitude", "descent_rate", "float", "rate")

ParseFloat(data, req, lookups) ==
    ParseBranch(data, req, lookups, "float_altitude", "stop_datetime", "rfc3339",
                "after_launch")

\* a profile extraction that leaves the default to _extract_parameter
ParseProfileNoDefault(data, req, lookups) ==
    LET r == ExtractParameter(data, "profile", "str", DEFAULT_DEFAULT,
                              FALSE, "none", req)
        req1 == [req EXCEPT !.profile = r.val]
    IN  IF r.exc # "none" THEN ParseFailed(r, lookups)
        ELSE IF req1.profile = PROFILE_STANDARD THEN ParseStandard(data, req1, lookups)
        ELSE IF req1.profile = PROFILE_FLOAT THEN ParseFloat(data, req1, lookups)
        ELSE ParseRaised("RequestException", "profile", "unknown profile", lookups)

ParseProfile(data, req, lookups) ==
    LET r == ExtractParameter(data, "profile", "str", PROFILE_STANDARD,
                              FALSE, "none", req)
        req1 == [req EXCEPT !.profile = r.val]
    IN  IF r.exc # "none" THEN ParseFailed(r, lookups)
        ELSE IF req1.profile = PROFILE_STANDARD THEN ParseStandard(data, req1, lookups)
        ELSE IF req1.profile = PROFILE_FLOAT THEN ParseFloat(data, req1, lookups)
        ELSE ParseRaised("RequestException", "profile", "unknown profile", lookups)

\* if req['launch_altitude'] is None: try ruaumoko_ds().get(...) except ...
ParseLookup(data, req, elev) ==
    IF req.launch_altitude = PyNone
    THEN IF elev.exc # "none"
         THEN ParseRaised("InternalException", "launch_altitude", "lookup", 1)
         ELSE ParseProfile(data, [req EXCEPT !.launch_altitude = elev.val], 1)
    ELSE ParseProfile(data, req, 0)

ParsePredictionRequest(data, elev) ==
    LET r1 == ExtractParameter(data, "launch_latitude", "float", DEFAULT_DEFAULT,
                               FALSE, "latitude", EmptyReq)
    IN  IF r1.exc # "none" THEN ParseFailed(r1, 0) ELSE
        LET req1 == [EmptyReq EXCEPT !.launch_latitude = r1.val]
            r2 == ExtractParameter(data, "launch_longitude", "float", DEFAULT_DEFAULT,
                                   FALSE, "longitude", req1)
        IN  IF r2.exc # "none" THEN ParseFailed(r2, 0) ELSE
            LET req2 == [req1 EXCEPT !.launch_longitude = r2.val]
                r3 == ExtractParameter(data, "launch_datetime", "rfc3339",
                                       DEFAULT_DEFAULT, FALSE, "none", req2)
            IN  IF r3.exc # "none" THEN ParseFailed(r3, 0) ELSE
                LET req3 == [req2 EXCEPT !.launch_datetime = r3.val]
                    r4 == ExtractParameter(data, "launch_altitude", "float",
                                           DEFAULT_DEFAULT, TRUE, "none", req3)
                IN  IF r4.exc # "none" THEN ParseFailed(r4, 0) ELSE
                    ParseLookup(data, [req3 EXCEPT !.launch_altitude = r4.val], elev)

(***************************************************************************)
(* SpecParse: parse_prediction_request applied to every parameter map of   *)
(* a bounded set.                                                          *)
(***************************************************************************)
\* 2023-12-31T18:00:00Z, in seconds since the epoch
LaunchEpoch == 19722 * 86400 + 18 * 3600

LaunchAltitude == 100

ParseInputs ==
    [type : {Absent},
     launch_latitude : {Absent, Word("x"), NumTxt(90), NumTxt(91)},
     launch_longitude : {Absent, NumTxt(0), NumTxt(360)},
     launch_datetime : {Absent, Word("x"), RfcTxt(LaunchEpoch)},
     launch_altitude : {Absent, Word("x"), NumTxt(LaunchAltitude)},
     profile : {Absent, Word("standard_profile"), Word("float_profile"), Word("bogus")},
     ascent_rate : {Absent, NumTxt(0), NumTxt(5)},
     burst_altitude : {Absent, NumTxt(LaunchAltitude), NumTxt(LaunchAltitude + 1)},
     descent_rate : {Absent, NumTxt(-1), NumTxt(5)},
     float_altitude : {Absent, NumTxt(LaunchAltitude), NumTxt(LaunchAltitude + 1)},
     stop_datetime : {Absent, RfcTxt(LaunchEpoch), RfcTxt(LaunchEpoch + 1)},
     dataset : {Absent, Word("latest"), RfcTxt(LaunchEpoch)}]

ElevationAnswers ==
    {Returned(PyFloat(LaunchAltitude - 1)), Raised("IOError")}

NotRun == ParseRaised("NotRun", "", "", 0)

ParseDrawn ==
    /\ pdata \in ParseInputs
    /\ pelev \in ElevationAnswers
    /\ pres = NotRun

ParseStep ==
    /\ pres = NotRun
    /\ pres' = ParsePredictionRequest(pdata, pelev)
    /\ UNCHANGED <<pdata, pelev, bvars, rvars>>

(***************************************************************************)
(* Properties of parse_prediction_request (SpecParse).                     *)
(***************************************************************************)
RequiredFields ==
    {"launch_latitude", "launch_longitude", "launch_datetime"}

GenericFields ==
    RequiredFields \cup {"launch_altitude"}

FloatFields ==
    {"launch_latitude", "launch_longitude", "launch_altitude", "ascent_rate",
     "burst_altitude", "descent_rate", "float_altitude"}

RateFields ==
    {"ascent_rate", "descent_rate"}

\* the text cannot be cast to the field's type
Uncastable(data, f) ==
    CASE f \in FloatFields -> data[f].k # "num"
      [] f \in {"launch_datetime", "stop_datetime", "dataset"} -> data[f].k # "rfc"
      [] OTHER -> FALSE

\* the text is a number outside the field's own range
OutOfRange(data, f) ==
    /\ data[f].k = "num"
    /\ CASE f = "launch_latitude" -> data[f].n < -90 \/ data[f].n > 90
         [] f = "launch_longitude" -> data[f].n < 0 \/ data[f].n >= 360
         [] f \in RateFields -> data[f].n <= 0
         [] OTHER -> FALSE

PresentAndBad(data, f) ==
    data[f] # Absent /\ (Uncastable(data, f) \/ OutOfRange(data, f))

\* the fields parse_prediction_request examines, in its order, for the
\* profile the map selects
ValidationOrder(data) ==
    <<"launch_latitude", "launch_longitude", "launch_datetime", "launch_altitude",
      "profile">> \o
    (CASE data.profile \in {Absent, Word("standard_profile")} ->
            <<"ascent_rate", "burst_altitude", "descent_rate", "dataset">>
       [] data.profile = Word("float_profile") ->
            <<"ascent_rate", "float_altitude", "stop_datetime", "dataset">>
       [] OTHER -> <<>>)

FieldsBefore(data, i) ==
    {ValidationOrder(data)[j] : j \in 1..(i - 1)}

\* C1: a request that omits a required generic field (launch_latitude,
\* launch_longitude, launch_datetime) fails with a RequestException, which
\* names the omitted field when no other field is at fault; no request is
\* returned.
C1_MissingRequiredFieldFails ==
    pres # NotRun =>
        \A f \in RequiredFields :
            pdata[f] = Absent =>
                /\ pres.exc = "RequestException"
                /\ (\A g \in Fields \ {f} : ~PresentAndBad(pdata, g)
                                             /\ (g \in RequiredFields => pdata[g] # Absent))
                       => pres.field = f

\* C2 as stated: every present field whose value cannot be cast or is out
\* of its range makes the parse fail with a RequestException naming that
\* field, whatever the other fields hold.
C2_EveryBadFieldIsNamed ==
    pres # NotRun =>
        \A f \in Fields :
            PresentAndBad(pdata, f) =>
                pres.exc = "RequestException" /\ pres.field = f

\* C2 amended: a present field of the selected profile whose value cannot be
\* cast or is out of its range makes the parse fail; the failure is a
\* RequestException naming that field unless a field earlier in the
\* validation order has already raised.
C2_FirstBadFieldIsNamed ==
    pres # NotRun =>
        \A i \in DOMAIN ValidationOrder(pdata) :
            LET f == ValidationOrder(pdata)[i]
            IN  PresentAndBad(pdata, f) =>
                    /\ pres.exc # "none"
                    /\ \/ pres.exc = "RequestException" /\ pres.field = f
                       \/ pres.field \in FieldsBefore(pdata, i)

\* a request whose only fault is descent_rate <= 0 is rejected naming it
C2_Witness ==
    /\ pres.exc = "RequestException"
    /\ pres.field = "descent_rate"
    /\ pres.msg = "invalid value"
    /\ pdata.descent_rate = NumTxt(-1)
    /\ \A g \in Fields \ {"descent_rate"} : ~PresentAndBad(pdata, g)

IsPositiveNumber(v) ==
    v.t = "float" /\ v.n > 0

IsNumberAbove(v, w) ==
    v.t = "float" /\ w.t = "float" /\ v.n > w.n

\* C3: every request parse_prediction_request returns has strictly positive
\* numeric rates, a numeric burst_altitude (standard) or float_altitude
\* (float) above launch_altitude, and a stop_datetime (float) after
\* launch_datetime.
C3_ReturnedRequestInvariant ==
    pres.exc = "none" =>
        /\ IsPositiveNumber(pres.req.ascent_rate)
        /\ pres.req.profile = PROFILE_STANDARD =>
               /\ IsPositiveNumber(pres.req.descent_rate)
               /\ IsNumberAbove(pres.req.burst_altitude, pres.req.launch_altitude)
        /\ pres.req.profile = PROFILE_FLOAT =>
               /\ IsNumberAbove(pres.req.float_altitude, pres.req.launch_altitude)
               /\ IsNumberAbove(pres.req.stop_datetime, pres.req.launch_datetime)

\* C4: when launch_altitude is omitted (and the three fields before it are
\* accepted) the elevation lookup is called and its answer becomes
\* launch_altitude; a failing lookup ends the request with
\* InternalException.
C4_OmittedAltitudeIsLookedUp ==
    (pres # NotRun /\ pdata.launch_altitude = Absent
        /\ ~(pres.exc # "none" /\ pres.field \in RequiredFields)) =>
        /\ pres.lookups = 1
        /\ pelev.exc # "none" => pres.exc = "InternalException"
        /\ (pelev.exc = "none" /\ pres.exc = "none") =>
               pres.req.launch_altitude = pelev.val

WithoutFields(data, fs) ==
    [f \in Fields |-> IF f \in fs THEN Absent ELSE data[f]]

\* C5: an omitted profile is the standard profile; an unknown profile fails
\* with a RequestException, naming the profile when the generic fields are
\* accepted; the outcome of a float-profile request does not depend on
\* burst_altitude or descent_rate, nor that of a standard-profile request on
\* float_altitude or stop_datetime, and neither is rejected for a field of
\* the other profile.
C5_ProfileHandling ==
    pres # NotRun =>
        /\ pdata.profile = Absent =>
               pres = ParsePredictionRequest(
                          [pdata EXCEPT !.profile = Word("standard_profile")], pelev)
        /\ pdata.profile \notin {Absent, Word("standard_profile"), Word("float_profile")} =>
               /\ pres.exc = "RequestException"
               /\ (\A g \in GenericFields : ~PresentAndBad(pdata, g)) =>
                      pres.field = "profile" /\ pres.msg = "unknown profile"
        /\ pdata.profile = Word("float_profile") =>
               /\ pres.field \notin {"burst_altitude", "descent_rate"}
               /\ pres = ParsePredictionRequest(
                      WithoutFields(pdata, {"burst_altitude", "descent_rate"}), pelev)
        /\ pdata.profile \in {Absent, Word("standard_profile")} =>
               /\ pres.field \notin {"float_altitude", "stop_datetime"}
               /\ pres = ParsePredictionRequest(
                      WithoutFields(pdata, {"float_altitude", "stop_datetime"}), pelev)

\* a float-profile request without burst_altitude and descent_rate is
\* returned as a validated request
C5_Witness ==
    /\ pres.exc = "none"
    /\ pdata.profile = Word("float_profile")
    /\ pdata.burst_altitude = Absent
    /\ pdata.descent_rate = Absent
    /\ pres.req.profile = PROFILE_FLOAT

(***************************************************************************)
(* Time.  A UNIX timestamp is a whole number of seconds.  A datetime is    *)
(* Python's naive datetime: calendar fields in the server's local zone,    *)
(* which is `offset` seconds east of UTC.                                  *)
(***************************************************************************)
\* days since 1970-01-01 of a date of the proleptic Gregorian calendar
DayOfEra(yoe, doy) ==
    yoe * 365 + yoe \div 4 - yoe \div 100 + doy

\* yy: the year counted from March; mp: the month counted from March
DaysFromShifted(yy, mp, d) ==
    (yy \div 400) * 146097
        + DayOfEra(yy - (yy \div 400) * 400, (153 * mp + 2) \div 5 + d - 1) - 719468

DaysFromCivil(y, m, d) ==
    DaysFromShifted(IF m <= 2 THEN y - 1 ELSE y, IF m > 2 THEN m - 3 ELSE m + 9, d)

\* the date that is `doy` days after March 1st of year y, in month mp from March
CivilFromMonthIndex(y, doy, mp) ==
    [year |-> y + (IF mp >= 10 THEN 1 ELSE 0),
     month |-> IF mp < 10 THEN mp + 3 ELSE mp - 9,
     day |-> doy - (153 * mp + 2) \div 5 + 1]

CivilFromDayOfYear(y, doy) ==
    CivilFromMonthIndex(y, doy, (5 * doy + 2) \div 153)

CivilFromYearOfEra(era, doe, yoe) ==
    CivilFromDayOfYear(yoe + era * 400, doe - (365 * yoe + yoe \div 4 - yoe \div 100))

CivilFromDayOfEra(era, doe) ==
    CivilFromYearOfEra(era, doe,
        (doe - doe \div 1460 + doe \div 36524 - doe \div 146096) \div 365)

\* the date that is z days after 1970-01-01
CivilFromDays(z) ==
    CivilFromDayOfEra((z + 719468) \div 146097, (z + 719468) % 146097)

\* seconds from 1970-01-01T00:00:00 of the same zone: the order of naive
\* datetimes, and what timedelta arithmetic adds to
ToOrdinal(dt) ==
    DaysFromCivil(dt.year, dt.month, dt.day) * 86400
        + dt.hour * 3600 + dt.minute * 60 + dt.second

\* the datetime of a date and a second of its day
AtSecondOfDay(c, sod) ==
    [year |-> c.year, month |-> c.month, day |-> c.day,
     hour |-> sod \div 3600, minute |-> (sod % 3600) \div 60, second |-> sod % 60]

FromOrdinal(o) ==
    AtSecondOfDay(CivilFromDays(o \div 86400), o % 86400)

\* datetime.fromtimestamp(ts)
FromTimestamp(ts, offset) ==
    FromOrdinal(ts + offset)

\* datetime + timedelta(hours=h)
PlusHours(dt, h) ==
    FromOrdinal(ToOrdinal(dt) + h * 3600)

DigitChars == <<"0", "1", "2", "3", "4", "5", "6", "7", "8", "9">>

\* the decimal digits of x, zero-padded to `width` characters
RECURSIVE Digits(_, _)
Digits(x, width) ==
    IF width = 0 THEN <<>>
    ELSE Append(Digits(x \div 10, width - 1), DigitChars[(x % 10) + 1])

\* launch_date_time.strftime("%Y%m%d%H")
StrftimeDatasetName(dt) ==
    Digits(dt.year, 4) \o Digits(dt.month, 2) \o Digits(dt.day, 2) \o Digits(dt.hour, 2)

\* launch_datetime.isoformat()
IsoFormat(dt) ==
    Digits(dt.year, 4) \o <<"-">> \o Digits(dt.month, 2) \o <<"-">> \o Digits(dt.day, 2)
        \o <<"T">> \o Digits(dt.hour, 2) \o <<":">> \o Digits(dt.minute, 2)
        \o <<":">> \o Digits(dt.second, 2)

(***************************************************************************)
(* TimeBucketer: is_time_between, hour_to_nearest_dataset,                 *)
(* _date_to_dataset_name.                                                  *)
(***************************************************************************)
IsTimeBetween(begin_time, end_time, dt_time) ==
    begin_time <= dt_time /\ dt_time < end_time

DatasetHours == <<0, 6, 12, 18>>

DatasetEndHours == <<6, 12, 18, 24>>

\* bucketing that rounds to the nearest cycle instead of the one before
HourToNearestDatasetRounding(day, hour) ==
    LET hit == {i \in 1..4 : IsTimeBetween(DatasetHours[i] - 3, DatasetEndHours[i] - 3, hour)}
    IN  IF hit = {} THEN [day |-> day, hour |-> 0]
        ELSE [day |-> day, hour |-> DatasetHours[CHOOSE i \in hit : \A j \in hit : i <= j]]

\* the first i in range(4) whose interval holds the hour; the loop ends
\* without a return (None) when there is none
HourToNearestDataset(day, hour) ==
    LET hit == {i \in 1..4 : IsTimeBetween(DatasetHours[i], DatasetEndHours[i], hour)}
    IN  IF hit = {} THEN [day |-> -1, hour |-> -1]
        ELSE [day |-> day, hour |-> DatasetHours[CHOOSE i \in hit : \A j \in hit : i <= j]]

\* launch_date_time.replace(day=.., hour=.., minute=0, second=0, microsecond=0)
ReplaceDayHour(dt, day, hour) ==
    [dt EXCEPT !.day = day, !.hour = hour, !.minute = 0, !.second = 0]

\* the bucket's filename and instant, as _date_to_dataset_name returns them
NamedBucket(bucket) ==
    [filename |-> StrftimeDatasetName(bucket), launch_date_time |-> bucket]

\* _date_to_dataset_name from the datetime of the launch on
BucketOfDatetime(launch_date_time, nearest) ==
    NamedBucket(ReplaceDayHour(launch_date_time, nearest.day, nearest.hour))

DatasetNameOfDatetime(launch_date_time) ==
    BucketOfDatetime(launch_date_time,
                     HourToNearestDataset(launch_date_time.day, launch_date_time.hour))

DateToDatasetName(rcf_launch_time, offset) ==
    DatasetNameOfDatetime(FromTimestamp(rcf_launch_time, offset))

(***************************************************************************)
(* SpecBucket: _date_to_dataset_name applied to launch instants around     *)
(* every hour of a few days (a year's first and last day, a leap day).     *)
(***************************************************************************)
\* 1970-01-02, 2023-12-31, 2024-02-29, 2024-03-01 as days since the epoch
BucketDays == {1, 19722, 19782, 19783}

SecondsIntoHour == {0, 1799, 3599}

BucketTimes ==
    {d * 86400 + h * 3600 + x : d \in BucketDays, h \in 0..23, x \in SecondsIntoHour}

UtcOffsets == {-18000, 0, 3600}

NotBucketed == [filename |-> <<>>, launch_date_time |-> FromOrdinal(0)]

BucketDrawn ==
    /\ btime \in BucketTimes
    /\ bres = NotBucketed

BucketStep ==
    /\ bres = NotBucketed
    /\ bres' = DateToDatasetName(btime, utcoffset)
    /\ UNCHANGED <<btime, pvars, rvars>>

ParseIdle ==
    /\ pdata = [f \in Fields |-> Absent]
    /\ pelev = Raised("IOError")
    /\ pres = NotRun

BucketIdle ==
    /\ btime = 0
    /\ bres = NotBucketed

(***************************************************************************)
(* Properties of the TimeBucketer (SpecBucket).                            *)
(***************************************************************************)
DigitValue(c) ==
    (CHOOSE i \in 1..10 : DigitChars[i] = c) - 1

\* the number a string of decimal digits spells
RECURSIVE DigitsValue(_)
DigitsValue(str) ==
    IF str = <<>> THEN 0
    ELSE 10 * DigitsValue(SubSeq(str, 1, Len(str) - 1)) + DigitValue(str[Len(str)])

DigitsValueOf(str, first, last) ==
    DigitsValue(SubSeq(str, first, last))

ExpectedBucketHour(hour) ==
    CASE hour \in 0..5 -> 0
      [] hour \in 6..11 -> 6
      [] hour \in 12..17 -> 12
      [] hour \in 18..23 -> 18

\* C6: the bucket of a launch instant has hour 0, 6, 12 or 18 for an input
\* hour in [0,6), [6,12), [12,18), [18,24), the input's calendar date, zero
\* minutes and seconds, lies at or before the input and less than 6 hours
\* before it, and the filename is the bucket formatted YYYYMMDDHH.
C6_BucketOfLaunchInstant ==
    bres # NotBucketed =>
        LET input == FromTimestamp(btime, utcoffset)
            bucket == bres.launch_date_time
        IN  /\ bucket.hour = ExpectedBucketHour(input.hour)
            /\ bucket.year = input.year
            /\ bucket.month = input.month
            /\ bucket.day = input.day
            /\ bucket.minute = 0 /\ bucket.second = 0
            /\ ToOrdinal(bucket) <= ToOrdinal(input)
            /\ ToOrdinal(input) < ToOrdinal(bucket) + 6 * 3600
            /\ (ToOrdinal(bucket) - utcoffset) <= btime
            /\ Len(bres.filename) = 10
            /\ DigitsValue(SubSeq(bres.filename, 1, 4)) = bucket.year
            /\ DigitsValue(SubSeq(bres.filename, 5, 6)) = bucket.month
            /\ DigitsValue(SubSeq(bres.filename, 7, 8)) = bucket.day
            /\ DigitsValue(SubSeq(bres.filename, 9, 10)) = bucket.hour

\* a launch in the last second before midnight is put in that day's 18h
\* bucket
C6_Witness ==
    /\ bres # NotBucketed
    /\ FromTimestamp(btime, utcoffset).hour = 23
    /\ FromTimestamp(btime, utcoffset).second = 59
    /\ bres.launch_date_time.hour = 18
    /\ bres.filename = <<"2", "0", "2", "4", "0", "2", "2", "9", "1", "8">>

(***************************************************************************)
(* AcquisitionTrigger: _is_old_dataset, _download_old_dataset, touch_file. *)
(***************************************************************************)
PyDatetime(dt) ==
    [t |-> "datetime", k |-> "", n |-> ToOrdinal(dt), s |-> ""]

HorizonHours == 180

\* current_time <= launch_dataset_time < max_time
InLiveWindow(current_time, launch_dataset_time) ==
    LET max_time == PlusHours(current_time, HorizonHours)
    IN  /\ ToOrdinal(current_time) <= ToOrdinal(launch_dataset_time)
        /\ ToOrdinal(launch_dataset_time) < ToOrdinal(max_time)

\* _is_old_dataset after its first two lines: the window test and the
\* search of the directory
IsOldNamed(r, named, current_time, listdir) ==
    IF InLiveWindow(current_time, named.launch_date_time)
    THEN [exc |-> "none", req |-> r, old |-> FALSE]
    ELSE [exc |-> "none",
          req |-> [r EXCEPT !.dataset = PyDatetime(named.launch_date_time)],
          old |-> named.filename \notin listdir]

\* req['dataset_time'] = launch_dataset_time
SetDatasetTime(r, named) ==
    [r EXCEPT !.dataset_time = PyDatetime(named.launch_date_time)]

IsOldBucket(r, named, current_time, listdir) ==
    IsOldNamed(SetDatasetTime(r, named), named, current_time, listdir)

\* _is_old_dataset(req) at wall-clock time `now` with the dataset directory
\* holding `listdir`: the exception raised ("none" when it returns), the
\* req dict it leaves, and what it returned
IsOldDataset(r, now, offset, listdir) ==
    IF r.launch_datetime.t # "float"
    THEN [exc |-> "TypeError", req |-> r, old |-> FALSE]
    ELSE IsOldBucket(r, DateToDatasetName(r.launch_datetime.n, offset),
                     FromTimestamp(now, offset), listdir)

\* '/srv/observed/' + launch_datetime.isoformat()
ObservedPath(launch_datetime) ==
    <<"/srv/observed/">> \o IsoFormat(launch_datetime)

\* '/srv/deletion_exclusion_list/' + launch_datetime.strftime("%Y%m%d%H")
ExclusionPath(launch_datetime) ==
    <<"/srv/deletion_exclusion_list/">> \o StrftimeDatasetName(launch_datetime)

\* touch_file: open(file_path, 'w') creates the file or truncates it; when
\* open raises, the exception is printed and dropped
TouchFile(fs, file_path, opened) ==
    IF opened
    THEN [q \in DOMAIN fs \cup {file_path} |-> IF q = file_path THEN 0 ELSE fs[q]]
    ELSE fs

(***************************************************************************)
(* The collaborators run_prediction calls: the wind dataset, the model     *)
(* builder and the solver.                                                 *)
(***************************************************************************)
\* the ds_time of the dataset file with this name
DsTimeOfFilename(name) ==
    [year |-> DigitsValueOf(name, 1, 4), month |-> DigitsValueOf(name, 5, 6),
     day |-> DigitsValueOf(name, 7, 8), hour |-> DigitsValueOf(name, 9, 10),
     minute |-> 0, second |-> 0]

\* WindDataset(ds_time, directory) and WindDataset.open_latest(directory):
\* a handle's ds_time, or the exception raised
OpenWindDataset(selector, listdir) ==
    CASE selector = LATEST_DATASET_KEYWORD ->
            IF listdir = {} THEN [exc |-> "IOError", ds_time |-> FromOrdinal(0)]
            ELSE LET latest == CHOOSE f \in listdir : \A g \in listdir :
                                   ToOrdinal(DsTimeOfFilename(g)) <= ToOrdinal(DsTimeOfFilename(f))
                 IN  [exc |-> "none", ds_time |-> DsTimeOfFilename(latest)]
      [] selector.t = "datetime" ->
            IF StrftimeDatasetName(FromOrdinal(selector.n)) \in listdir
            THEN [exc |-> "none", ds_time |-> FromOrdinal(selector.n)]
            ELSE [exc |-> "IOError", ds_time |-> FromOrdinal(0)]
      [] OTHER -> [exc |-> "ValueError", ds_time |-> FromOrdinal(0)]

\* an echo whose format drops the hour: "%Y-%m-%dT00:00:00Z"
StrftimeDatasetEchoMidnight(ds_time) ==
    PyStr(RfcTxt(ToOrdinal([ds_time EXCEPT !.hour = 0, !.minute = 0, !.second = 0])))

\* tawhiri_ds.ds_time.strftime("%Y-%m-%dT%H:00:00Z"): the text of the
\* instant whose UTC fields are ds_time's date and hour
StrftimeDatasetEcho(ds_time) ==
    PyStr(RfcTxt(ToOrdinal([ds_time EXCEPT !.minute = 0, !.second = 0])))

\* _timestamp_to_rfc3339(dt)
TimestampToRfc3339(v) ==
    IF v.t = "float" THEN Returned(PyStr(RfcTxt(v.n))) ELSE Raised("TypeError")

Leg(i) ==
    <<[dt |-> i, lat |-> 0, lon |-> 0, alt |-> 100 * i]>>

\* what solver.solve may answer: lists of one to three legs, or an
\* exception; arithmetic on a str parameter always raises
SolverAnswers(r) ==
    LET numeric == /\ \A f \in {"launch_datetime", "launch_latitude", "launch_longitude",
                                "launch_altitude", "ascent_rate"} : r[f].t = "float"
                   /\ r.profile = PROFILE_STANDARD =>
                          r.burst_altitude.t = "float" /\ r.descent_rate.t = "float"
                   /\ r.profile = PROFILE_FLOAT =>
                          r.float_altitude.t = "float" /\ r.stop_datetime.t = "float"
    IN  {[exc |-> "ValueError", legs |-> <<>>]} \cup
        (IF numeric
         THEN {[exc |-> "none", legs |-> <<Leg(1)>>],
               [exc |-> "none", legs |-> <<Leg(1), Leg(2)>>],
               [exc |-> "none", legs |-> <<Leg(1), Leg(2), Leg(3)>>]}
         ELSE {})

\* _parse_stages(labels, data) after its assertion
ParseStages(labels, legs) ==
    [i \in DOMAIN legs |->
        [stage |-> labels[i],
         trajectory |-> [j \in DOMAIN legs[i] |->
             [latitude |-> legs[i][j].lat, longitude |-> legs[i][j].lon,
              altitude |-> legs[i][j].alt,
              datetime |-> TimestampToRfc3339(PyFloat(legs[i][j].dt)).val]]]]

(***************************************************************************)
(* The Flask boundary: the APIException classes, handle_exception, and     *)
(* what Flask answers when an exception has no registered handler.         *)
(***************************************************************************)
APIExceptions ==
    {"APIException", "RequestException", "InvalidDatasetException",
     "PredictionException", "InternalException", "NotYetImplementedException"}

\* every class answering the status_code of the base class
StatusCodeOfBase(kind) ==
    500

StatusCode(kind) ==
    CASE kind = "RequestException" -> 400
      [] kind = "InvalidDatasetException" -> 404
      [] kind = "NotYetImplementedException" -> 501
      [] OTHER -> 500

Description(field, msg) ==
    [field |-> field, msg |-> msg]

NoResponse ==
    [kind |-> "none", type |-> "", description |-> Description("", ""), status |-> 0,
     prediction |-> <<>>, datasets |-> {}, metadata |-> FALSE, start |-> 0,
     complete |-> 0]

\* handle_exception(error): the error envelope with its metadata
HandleException(kind, description, start, now) ==
    [NoResponse EXCEPT !.kind = "error", !.type = kind, !.description = description,
                       !.status = StatusCode(kind), !.metadata = TRUE,
                       !.start = start, !.complete = now]

\* an exception that is no APIException reaches no handler of this module:
\* Flask answers its own 500 page
FlaskInternalServerError ==
    [NoResponse EXCEPT !.kind = "flask_500", !.status = 500]

Boundary(kind, description, start, now) ==
    IF kind \in APIExceptions
    THEN HandleException(kind, description, start, now)
    ELSE FlaskInternalServerError

\* main() returning jsonify(response): no metadata is attached
Jsonify(kind, prediction, datasets, start, now) ==
    [NoResponse EXCEPT !.kind = kind, !.status = 200, !.prediction = prediction,
                       !.datasets = datasets, !.start = start, !.complete = now]

(***************************************************************************)
(* The requests clients send.                                              *)
(***************************************************************************)
\* the server starts at 2023-12-31T18:00:00Z, the instant of a forecast cycle
Clock0 == LaunchEpoch

\* a launch the day before, one in the cycle that starts now, and one in
\* the cycle that starts at the far end of the live window
HistoricLaunch == Clock0 - 86400 + 100

CurrentLaunch == Clock0 + 100

HorizonLaunch == Clock0 + HorizonHours * 3600 + 100

Launches == {HistoricLaunch, CurrentLaunch, HorizonLaunch}

StandardArgs(launch) ==
    [type |-> Absent, launch_latitude |-> NumTxt(45), launch_longitude |-> NumTxt(10),
     launch_datetime |-> RfcTxt(launch), launch_altitude |-> NumTxt(LaunchAltitude),
     profile |-> Absent, ascent_rate |-> NumTxt(5),
     burst_altitude |-> NumTxt(LaunchAltitude + 1), descent_rate |-> NumTxt(5),
     float_altitude |-> Absent, stop_datetime |-> Absent, dataset |-> Absent]

FloatArgs(launch) ==
    [StandardArgs(launch) EXCEPT !.profile = Word("float_profile"),
                                 !.burst_altitude = Absent, !.descent_rate = Absent,
                                 !.float_altitude = NumTxt(LaunchAltitude + 1),
                                 !.stop_datetime = RfcTxt(launch + 3600)]

Menu ==
    {StandardArgs(t) : t \in Launches} \cup {FloatArgs(t) : t \in Launches}
    \cup {[StandardArgs(HistoricLaunch) EXCEPT !.type = Word(w)] :
              w \in {"prediction", "load_datasets", "bogus"}}
    \cup {[StandardArgs(HistoricLaunch) EXCEPT !.launch_datetime = Absent],
          [StandardArgs(HistoricLaunch) EXCEPT !.launch_altitude = Absent],
          [StandardArgs(HistoricLaunch) EXCEPT !.profile = Word("bogus")],
          [StandardArgs(CurrentLaunch) EXCEPT !.dataset = RfcTxt(HistoricLaunch)],
          [FloatArgs(HistoricLaunch) EXCEPT !.stop_datetime = Absent]}

ConcurrentMenu ==
    {StandardArgs(HistoricLaunch), FloatArgs(HistoricLaunch + 60),
     StandardArgs(CurrentLaunch)}

\* the parameter maps clients send in each mode
RequestsSent(m) ==
    CASE m = "sequential" -> Menu
      [] m = "concurrent" -> ConcurrentMenu
      [] OTHER -> {}

(***************************************************************************)
(* The workers.  Each handles one request at a time: main, parse_request,  *)
(* and for a prediction run_prediction, one step per call that reads or    *)
(* writes what the workers share (the clock, the dataset directory, the    *)
(* marker files).                                                          *)
(***************************************************************************)
Workers == {1, 2}

MaxRequests == 2

MaxTicks == 2

\* what a worker's current request has done so far: when it started, the
\* clock _is_old_dataset read and what it returned, the paths touch_file was
\* called with and those it opened, the exceptions touch_file dropped, the
\* exception that ended the request and the calls of handle_exception; and,
\* over all of the worker's requests, the buckets _download_old_dataset
\* was called for; the exception a collaborator raised last, the step the
\* request ended at, the ds_time of the dataset it opened, and the handle
\* ruaumoko_ds() returned to it
NoHistory ==
    [start |-> 0, checkClock |-> -1, old |-> FALSE, attempted |-> {}, wrote |-> {},
     swallowed |-> 0, raised |-> "none", handled |-> 0, opens |-> 0, solves |-> 0,
     triggered |-> {}, cause |-> "none", failedAt |-> "none", openedDs |-> -1,
     handle |-> 0]

NoFiles == [q \in {} |-> 0]

\* a request type with no default: an absent type is an error
GetRequestTypeRequired(data) ==
    ExtractParameter(data, "type", "str", PyNone, FALSE, "none", EmptyReq)

\* a request type that is never read from the parameters
GetRequestTypeIgnored(data) ==
    Returned(DEFAULT_DEFAULT)

\* _get_request_type(data)
GetRequestType(data) ==
    ExtractParameter(data, "type", "str", DEFAULT_DEFAULT, FALSE, "none", EmptyReq)

\* worker p leaves its request by an exception; h is its history so far
Raises(p, h, kind, description) ==
    /\ pc' = [pc EXCEPT ![p] = "done"]
    /\ resp' = [resp EXCEPT ![p] = Boundary(kind, description, h.start, clock)]
    /\ hist' = [hist EXCEPT ![p] =
                   [h EXCEPT !.raised = kind,
                             !.failedAt = IF pc[p] \in {"idle", "done"} THEN "receive"
                                          ELSE pc[p],
                             !.handled = IF kind \in APIExceptions THEN @ + 1 ELSE @]]

\* worker p answers without an exception
Answers(p, h, response) ==
    /\ pc' = [pc EXCEPT ![p] = "done"]
    /\ resp' = [resp EXCEPT ![p] = response]
    /\ hist' = [hist EXCEPT ![p] = h]

\* main() and parse_request(request.args) up to the call of run_prediction
Receive(p) ==
    /\ pc[p] \in {"idle", "done"}
    /\ quota[p] > 0
    /\ \E d \in RequestsSent(mode), elev \in ElevationAnswers :
          LET request_type == GetRequestType(d).val
              h == [NoHistory EXCEPT !.start = clock, !.triggered = hist[p].triggered]
              parsed == ParsePredictionRequest(d, elev)
          IN  /\ args' = [args EXCEPT ![p] = d]
              /\ IF request_type = PyStr(Word("prediction"))
                 THEN IF parsed.exc = "none"
                      THEN /\ request' = [request EXCEPT ![p] = parsed.req]
                           /\ pc' = [pc EXCEPT ![p] = "is_old"]
                           /\ resp' = [resp EXCEPT ![p] = NoResponse]
                           /\ hist' = [hist EXCEPT ![p] = h]
                      ELSE /\ request' = [request EXCEPT ![p] = EmptyReq]
                           /\ Raises(p, h, parsed.exc, Description(parsed.field, parsed.msg))
                 ELSE /\ request' = [request EXCEPT ![p] = EmptyReq]
                      /\ IF request_type = PyStr(Word("load_datasets"))
                         THEN Answers(p, h, Jsonify("datasets", <<>>, index, clock, clock))
                         ELSE Answers(p, h, Jsonify("invalid request type", <<>>, {},
                                                    clock, clock))
    /\ quota' = [quota EXCEPT ![p] = @ - 1]
    /\ solved' = [solved EXCEPT ![p] = <<>>]
    /\ UNCHANGED <<elevation, utcoffset, clock, ticks, index, files, mode, pvars, bvars>>

\* run_prediction: _is_old_dataset(req)
ResolveDataset(p) ==
    /\ pc[p] = "is_old"
    /\ LET o == IsOldDataset(request[p], clock, utcoffset, index)
           h == [hist[p] EXCEPT !.checkClock = clock, !.old = o.old,
                           !.triggered = IF o.old THEN @ \cup {o.req.dataset_time.n}
                                         ELSE @]
       IN  IF o.exc # "none"
           THEN /\ Raises(p, h, o.exc, Description("launch_datetime", ""))
                /\ UNCHANGED request
           ELSE /\ request' = [request EXCEPT ![p] = o.req]
                /\ pc' = [pc EXCEPT ![p] = IF o.old THEN "touch_observed" ELSE "open"]
                /\ hist' = [hist EXCEPT ![p] = h]
                /\ UNCHANGED resp
    /\ UNCHANGED <<elevation, utcoffset, clock, ticks, index, files, quota, mode, args, solved,
                   pvars, bvars>>

\* worker p calls touch_file(file_path); open() succeeds or raises
Touches(p, file_path, opened, next) ==
    /\ files' = TouchFile(files, file_path, opened)
    /\ hist' = [hist EXCEPT ![p].attempted = @ \cup {file_path},
                            ![p].wrote = IF opened THEN @ \cup {file_path} ELSE @,
                            ![p].swallowed = IF opened THEN @ ELSE @ + 1]
    /\ pc' = [pc EXCEPT ![p] = next]
    /\ UNCHANGED <<elevation, utcoffset, clock, ticks, index, quota, mode, args, request, solved,
                   resp, pvars, bvars>>

\* _download_old_dataset: touch_file(script_path)
TouchObserved(p) ==
    /\ pc[p] = "touch_observed"
    /\ \E opened \in BOOLEAN :
          Touches(p, ObservedPath(FromOrdinal(request[p].dataset_time.n)), opened,
                  "touch_exclusion")

\* _download_old_dataset: touch_file(exclusion_script_path)
TouchExclusion(p) ==
    /\ pc[p] = "touch_exclusion"
    /\ \E opened \in BOOLEAN :
          Touches(p, ExclusionPath(FromOrdinal(request[p].dataset_time.n)), opened,
                  "open")

\* run_prediction: the try block that opens the wind dataset, and the echo
\* of its ds_time
OpenDataset(p) ==
    /\ pc[p] = "open"
    /\ LET o == OpenWindDataset(request[p].dataset, index)
           h == [hist[p] EXCEPT !.opens = @ + 1, !.cause = o.exc,
                                !.openedDs = IF o.exc = "none" THEN ToOrdinal(o.ds_time)
                                             ELSE @]
       IN  CASE o.exc = "IOError" ->
                  /\ Raises(p, h, "InvalidDatasetException",
                            Description("dataset", "No matching dataset found."))
                  /\ UNCHANGED request
             [] o.exc = "ValueError" ->
                  /\ Raises(p, h, "InvalidDatasetException",
                            Description("dataset", "ValueError"))
                  /\ UNCHANGED request
             [] OTHER ->
                  /\ request' = [request EXCEPT ![p].dataset = StrftimeDatasetEcho(o.ds_time)]
                  /\ pc' = [pc EXCEPT ![p] = "stages"]
                  /\ hist' = [hist EXCEPT ![p] = h]
                  /\ UNCHANGED resp
    /\ UNCHANGED <<elevation, utcoffset, clock, ticks, index, files, quota, mode, args, solved,
                   pvars, bvars>>

\* no elevation dataset has been built
NoElevation == [once |-> 0, built |-> 0]

\* hasattr("ruaumoko_ds", "once"): the first argument is a str literal, and
\* a str has no attribute named once, whatever the function object holds
HasAttrOnce(e) ==
    FALSE

\* ruaumoko_ds(): builds ElevationDataset(ds_loc) and stores it in
\* ruaumoko_ds.once unless hasattr says it is there; returns
\* ruaumoko_ds.once.  Handles are numbered in the order they are built.
RuaumokoDs(e) ==
    IF ~HasAttrOnce(e)
    THEN [once |-> e.built + 1, built |-> e.built + 1]
    ELSE e

\* run_prediction: models.standard_profile(..., ruaumoko_ds(), ...) or
\* models.float_profile(...); the arguments are evaluated, then the call
\* returns the stages or raises
BuildStages(p) ==
    /\ pc[p] = "stages"
    /\ \E built \in BOOLEAN :
          LET e == IF request[p].profile = PROFILE_STANDARD THEN RuaumokoDs(elevation)
                   ELSE elevation
              h == [hist[p] EXCEPT !.handle = IF request[p].profile = PROFILE_STANDARD
                                              THEN e.once ELSE @]
          IN  /\ elevation' = e
              /\ IF request[p].profile \notin {PROFILE_STANDARD, PROFILE_FLOAT}
                 THEN Raises(p, h, "InternalException",
                             Description("profile", "No implementation for known profile."))
                 ELSE IF built
                 THEN /\ pc' = [pc EXCEPT ![p] = "solve"]
                      /\ hist' = [hist EXCEPT ![p] = h]
                      /\ UNCHANGED resp
                 ELSE Raises(p, h, "Exception", Description("stages", ""))
    /\ UNCHANGED <<utcoffset, clock, ticks, index, files, quota, mode, args, request,
                   solved, pvars, bvars>>

\* run_prediction: the try block around solver.solve
Solve(p) ==
    /\ pc[p] = "solve"
    /\ \E a \in SolverAnswers(request[p]) :
          LET h == [hist[p] EXCEPT !.solves = @ + 1, !.cause = a.exc]
          IN  IF a.exc # "none"
              THEN /\ Raises(p, h, "PredictionException",
                             Description("solver", a.exc))
                   /\ UNCHANGED solved
              ELSE /\ solved' = [solved EXCEPT ![p] = a.legs]
                   /\ pc' = [pc EXCEPT ![p] = "format"]
                   /\ hist' = [hist EXCEPT ![p] = h]
                   /\ UNCHANGED resp
    /\ UNCHANGED <<elevation, utcoffset, clock, ticks, index, files, quota, mode, args, request,
                   pvars, bvars>>

\* the labels of the standard profile for every profile
StageLabelsOfStandard(r) ==
    <<"ascent", "descent">>

\* run_prediction: the labels handed to _parse_stages
StageLabels(r) ==
    IF r.profile = PROFILE_STANDARD THEN <<"ascent", "descent">> ELSE <<"ascent", "float">>

\* for key in resp['request']: if "datetime" in key: ... (the keys are
\* launch_datetime and, in a float request, stop_datetime)
FormatRequest(r) ==
    LET a == TimestampToRfc3339(r.launch_datetime)
        b == TimestampToRfc3339(r.stop_datetime)
    IN  IF a.exc # "none" THEN [exc |-> a.exc, req |-> r]
        ELSE IF r.stop_datetime = PyUnset
        THEN [exc |-> "none", req |-> [r EXCEPT !.launch_datetime = a.val]]
        ELSE IF b.exc # "none"
        THEN [exc |-> b.exc, req |-> [r EXCEPT !.launch_datetime = a.val]]
        ELSE [exc |-> "none",
              req |-> [r EXCEPT !.launch_datetime = a.val, !.stop_datetime = b.val]]

\* run_prediction from "Format trajectory" to its return, and main's
\* jsonify of what it returned
FormatResponse(p) ==
    /\ pc[p] = "format"
    /\ LET labels == StageLabels(request[p])
           formatted == FormatRequest(request[p])
       IN  IF Len(labels) # Len(solved[p])
           THEN /\ Raises(p, hist[p], "AssertionError", Description("stages", ""))
                /\ UNCHANGED request
           ELSE /\ request' = [request EXCEPT ![p] = formatted.req]
                /\ IF formatted.exc # "none"
                   THEN Raises(p, hist[p], formatted.exc, Description("request", ""))
                   ELSE Answers(p, hist[p],
                                Jsonify("success", ParseStages(labels, solved[p]), {},
                                        hist[p].start, clock))
    /\ UNCHANGED <<elevation, utcoffset, clock, ticks, index, files, quota, mode, args, solved,
                   pvars, bvars>>

\* time passes
Tick ==
    /\ ticks < MaxTicks
    /\ clock' = clock + 1
    /\ ticks' = ticks + 1
    /\ UNCHANGED <<elevation, utcoffset, index, files, quota, mode, pc, args, request, solved,
                   resp, hist, pvars, bvars>>

(***************************************************************************)
(* The specifications.                                                     *)
(***************************************************************************)
IndexCandidates ==
    {DateToDatasetName(t, 0).filename : t \in {HistoricLaunch, CurrentLaunch}}

RunInit(quotas, requests) ==
    /\ elevation = NoElevation
    /\ utcoffset = 0
    /\ clock = Clock0
    /\ ticks = 0
    /\ index \in SUBSET IndexCandidates
    /\ files = NoFiles
    /\ quota = quotas
    /\ mode = requests
    /\ pc = [p \in Workers |-> "idle"]
    /\ args = [p \in Workers |-> [f \in Fields |-> Absent]]
    /\ request = [p \in Workers |-> EmptyReq]
    /\ solved = [p \in Workers |-> <<>>]
    /\ resp = [p \in Workers |-> NoResponse]
    /\ hist = [p \in Workers |-> NoHistory]

RunIdle(offsets) ==
    /\ elevation = NoElevation
    /\ utcoffset \in offsets
    /\ clock = 0
    /\ ticks = 0
    /\ index = {}
    /\ files = NoFiles
    /\ quota = [p \in Workers |-> 0]
    /\ mode = "none"
    /\ pc = [p \in Workers |-> "idle"]
    /\ args = [p \in Workers |-> [f \in Fields |-> Absent]]
    /\ request = [p \in Workers |-> EmptyReq]
    /\ solved = [p \in Workers |-> <<>>]
    /\ resp = [p \in Workers |-> NoResponse]
    /\ hist = [p \in Workers |-> NoHistory]

\* one worker takes MaxRequests requests, one after the other
Init ==
    /\ RunInit([p \in Workers |-> IF p = 1 THEN MaxRequests ELSE 0], "sequential")
    /\ ParseIdle
    /\ BucketIdle

\* every worker takes one request; the workers run concurrently
ConcurrentInit ==
    /\ RunInit([p \in Workers |-> 1], "concurrent")
    /\ ParseIdle
    /\ BucketIdle

Next ==
    \/ \E p \in Workers : Receive(p)
    \/ \E p \in Workers : ResolveDataset(p)
    \/ \E p \in Workers : TouchObserved(p)
    \/ \E p \in Workers : TouchExclusion(p)
    \/ \E p \in Workers : OpenDataset(p)
    \/ \E p \in Workers : BuildStages(p)
    \/ \E p \in Workers : Solve(p)
    \/ \E p \in Workers : FormatResponse(p)
    \/ Tick

Spec == Init /\ [][Next]_vars

SpecConcurrent == ConcurrentInit /\ [][Next]_vars

\* parse_prediction_request alone, on every parameter map of ParseInputs
ParseInit ==
    /\ ParseDrawn
    /\ BucketIdle
    /\ RunIdle({0})

SpecParse == ParseInit /\ [][ParseStep]_vars

\* _date_to_dataset_name alone, on every instant of BucketTimes in every
\* zone of UtcOffsets
BucketInit ==
    /\ BucketDrawn
    /\ ParseIdle
    /\ RunIdle(UtcOffsets)

SpecBucket == BucketInit /\ [][BucketStep]_vars

(***************************************************************************)
(* Properties of the acquisition trigger (Spec, SpecConcurrent).           *)
(***************************************************************************)
\* worker p is past "if _is_old_dataset(req): _download_old_dataset(...)"
\* of its current request, and the trigger computed a bucket
PastTrigger(p) ==
    /\ hist[p].checkClock >= 0
    /\ request[p].dataset_time.t = "datetime"
    /\ pc[p] \notin {"idle", "is_old", "touch_observed", "touch_exclusion"}

\* the bucket of worker p's current request
BucketOf(p) ==
    FromOrdinal(request[p].dataset_time.n)

MarkerPair(bucket) ==
    {ObservedPath(bucket), ExclusionPath(bucket)}

\* the bucket lies outside [now, now + 180h) at the instant the trigger
\* read the clock, and the index lists no file of the bucket's name
MissingOutOfWindow(p) ==
    /\ ~InLiveWindow(FromTimestamp(hist[p].checkClock, utcoffset), BucketOf(p))
    /\ StrftimeDatasetName(BucketOf(p)) \notin index

\* C7: once a request is past the acquisition trigger, the trigger has
\* created the bucket's two markers (the fetch-request marker named by the
\* bucket's ISO instant, the retention-exclusion marker named by the bucket
\* filename) if the bucket lies outside [now, now + 180h) and the index
\* lists no file of the bucket's name, and has created no marker otherwise.
C7_MarkersCreatedIffMissingOutOfWindow ==
    \A p \in Workers :
        PastTrigger(p) =>
            IF MissingOutOfWindow(p)
            THEN /\ hist[p].wrote = MarkerPair(BucketOf(p))
                 /\ MarkerPair(BucketOf(p)) \subseteq DOMAIN files
            ELSE hist[p].wrote = {}

\* every marker a worker's triggers were invoked for
MarkersTriggered ==
    UNION {MarkerPair(FromOrdinal(b)) : b \in UNION {hist[p].triggered : p \in Workers}}

\* C8: after the trigger has been invoked one or more times for a missing,
\* out-of-window bucket, the marker files are exactly the two markers of
\* each bucket it was invoked for, every one of them empty, and there is
\* no marker of any other bucket.
C8_TriggerIsIdempotent ==
    (\A p \in Workers : pc[p] \notin {"is_old", "touch_observed", "touch_exclusion"}) =>
        /\ DOMAIN files = MarkersTriggered
        /\ \A q \in DOMAIN files : files[q] = 0

\* the workers' requests resolved to one and the same missing,
\* out-of-window bucket, and all are past the trigger
SameMissingBucket ==
    /\ \A p \in Workers : PastTrigger(p) /\ hist[p].old
    /\ \A p, q \in Workers : request[p].dataset_time = request[q].dataset_time

\* C9: when concurrent requests have resolved to the same missing,
\* out-of-window bucket and all of them are past the trigger, whatever the
\* interleaving of their index checks and marker writes, the marker files
\* are exactly that bucket's fetch-request marker and retention-exclusion
\* marker, both present and empty.
C9_ConcurrentTriggersLeaveOnePair ==
    SameMissingBucket =>
        /\ \A p \in Workers : DOMAIN files = MarkerPair(BucketOf(p))
        /\ \A q \in DOMAIN files : files[q] = 0

(***************************************************************************)
(* Properties of the boundary (Spec).                                      *)
(***************************************************************************)
\* the five kinds of the error taxonomy
TaxonomyKinds ==
    {"RequestException", "InvalidDatasetException", "PredictionException",
     "InternalException", "NotYetImplementedException"}

\* C10: every error raised while a request is validated or orchestrated
\* reaches handle_exception exactly once and is answered as the error
\* envelope {error: {type, description}, metadata} with one of the five
\* taxonomy kinds; none escapes uncategorized and none is dropped silently.
C10_EveryErrorReachesTheBoundary ==
    \A p \in Workers :
        /\ hist[p].swallowed = 0
        /\ hist[p].raised # "none" =>
              /\ hist[p].handled = 1
              /\ resp[p].kind = "error"
              /\ resp[p].type \in TaxonomyKinds
              /\ resp[p].metadata

\* the status the taxonomy gives each kind
TaxonomyStatus(kind) ==
    CASE kind = "RequestException" -> 400
      [] kind = "InvalidDatasetException" -> 404
      [] kind = "PredictionException" -> 500
      [] kind = "InternalException" -> 500
      [] kind = "NotYetImplementedException" -> 501
      [] OTHER -> 500

\* C11: a dataset open that finds no dataset ends the request with
\* InvalidDatasetException (404), one that rejects the selector with
\* InvalidDatasetException carrying the detail, a solver failure with
\* PredictionException (500) carrying the cause; whenever an APIException
\* ends a request, the envelope's type is the kind raised, its status is
\* the kind's status (RequestException 400, InternalException 500,
\* NotYetImplementedException 501) and no prediction is returned.
C11_ErrorMapping ==
    \A p \in Workers :
        /\ (hist[p].failedAt = "open" /\ hist[p].cause = "IOError") =>
               /\ hist[p].raised = "InvalidDatasetException"
               /\ resp[p].status = 404
               /\ resp[p].description.msg = "No matching dataset found."
        /\ (hist[p].failedAt = "open" /\ hist[p].cause = "ValueError") =>
               /\ hist[p].raised = "InvalidDatasetException"
               /\ resp[p].status = 404
               /\ resp[p].description.msg = hist[p].cause
        /\ hist[p].failedAt = "solve" =>
               /\ hist[p].raised = "PredictionException"
               /\ resp[p].status = 500
               /\ resp[p].description.msg = hist[p].cause
        /\ hist[p].raised \in APIExceptions =>
               /\ resp[p].kind = "error"
               /\ resp[p].type = hist[p].raised
               /\ resp[p].status = TaxonomyStatus(hist[p].raised)
               /\ resp[p].prediction = <<>>

\* a request whose dataset is not in the index ends with the 404 envelope
\* of InvalidDatasetException
C11_Witness ==
    \E p \in Workers :
        /\ hist[p].failedAt = "open"
        /\ hist[p].cause = "IOError"
        /\ resp[p].kind = "error"
        /\ resp[p].type = "InvalidDatasetException"
        /\ resp[p].status = 404

\* C12: every response (the success envelope of a prediction, that of
\* load_datasets, every error envelope) carries the metadata object, whose
\* start_datetime is not after its complete_datetime.
C12_EveryResponseCarriesMetadata ==
    \A p \in Workers :
        resp[p].kind \in {"success", "datasets", "error"} =>
            /\ resp[p].metadata
            /\ resp[p].start <= resp[p].complete

(***************************************************************************)
(* Properties of the dispatch (Spec).                                      *)
(***************************************************************************)
\* this step is worker p receiving a request
ReceivedBy(p) ==
    quota'[p] = quota[p] - 1

\* this step does to worker p what parse_request does with the parameter
\* map `data` of type prediction: parse_prediction_request, then
\* run_prediction or the exception of the parse; no marker is touched
PredictionPath(p, data) ==
    /\ files' = files
    /\ \E elev \in ElevationAnswers :
          LET parsed == ParsePredictionRequest(data, elev)
          IN  IF parsed.exc = "none"
              THEN /\ pc'[p] = "is_old"
                   /\ request'[p] = parsed.req
                   /\ resp'[p] = NoResponse
              ELSE /\ pc'[p] = "done"
                   /\ hist'[p].raised = parsed.exc
                   /\ resp'[p] = Boundary(parsed.exc, Description(parsed.field, parsed.msg),
                                          clock, clock)

\* C13: a request whose parameter map has no type is handled exactly as
\* the same map with type=prediction is: the same request goes on to
\* run_prediction, or the same error ends it, and no marker is touched.
C13_AbsentTypeIsPrediction ==
    [][\A p \in Workers :
          (ReceivedBy(p) /\ args'[p].type = Absent) =>
              /\ GetRequestType(args'[p]) =
                     GetRequestType([args'[p] EXCEPT !.type = Word("prediction")])
              /\ PredictionPath(p, [args'[p] EXCEPT !.type = Word("prediction")])]_vars

\* a request without a type has been answered with a prediction
C13_Witness ==
    \E p \in Workers :
        /\ args[p].type = Absent
        /\ resp[p].kind = "success"
        /\ Len(resp[p].prediction) = 2

(***************************************************************************)
(* Properties of the success response (Spec).                              *)
(***************************************************************************)
\* worker p's request has been answered with a prediction
Succeeded(p) ==
    resp[p].kind = "success"

StageHoldsLeg(stage, leg) ==
    /\ Len(stage.trajectory) = Len(leg)
    /\ \A j \in DOMAIN leg :
          /\ stage.trajectory[j].latitude = leg[j].lat
          /\ stage.trajectory[j].longitude = leg[j].lon
          /\ stage.trajectory[j].altitude = leg[j].alt
          /\ stage.trajectory[j].datetime = PyStr(RfcTxt(leg[j].dt))

\* C15: a successful prediction response has exactly two stages, labelled
\* ascent and descent for the standard profile and ascent and float for
\* the float profile, the i-th holding the samples of the solver's i-th
\* leg; a solver result of another number of legs yields no success.
C15_TwoLabelledStages ==
    \A p \in Workers :
        Succeeded(p) =>
            /\ Len(solved[p]) = 2
            /\ Len(resp[p].prediction) = 2
            /\ resp[p].prediction[1].stage = "ascent"
            /\ request[p].profile = PROFILE_STANDARD =>
                   resp[p].prediction[2].stage = "descent"
            /\ request[p].profile = PROFILE_FLOAT =>
                   resp[p].prediction[2].stage = "float"
            /\ \A i \in 1..2 : StageHoldsLeg(resp[p].prediction[i], solved[p][i])

\* a float-profile request has been answered with its two stages
C15_Witness ==
    \E p \in Workers :
        /\ Succeeded(p)
        /\ request[p].profile = PROFILE_FLOAT
        /\ resp[p].prediction[2].stage = "float"
        /\ StageHoldsLeg(resp[p].prediction[2], Leg(2))

\* v is a str in the wire timestamp format
IsWire(v) ==
    v.t = "str" /\ v.k = "rfc"

\* C16: in a successful prediction response every instant of the echoed
\* request (launch_datetime, stop_datetime of a float request, dataset,
\* and the dataset_time that _is_old_dataset adds) is in the wire
\* timestamp format; before the formatting step at the end of
\* run_prediction, launch_datetime and stop_datetime are not yet converted.
C16_EchoedInstantsAreWireFormat ==
    \A p \in Workers :
        /\ Succeeded(p) =>
               /\ IsWire(request[p].launch_datetime)
               /\ request[p].profile = PROFILE_FLOAT => IsWire(request[p].stop_datetime)
               /\ IsWire(request[p].dataset)
               /\ IsWire(request[p].dataset_time)
        /\ pc[p] \in {"is_old", "touch_observed", "touch_exclusion", "open", "stages",
                      "solve", "format"} =>
               /\ ~IsWire(request[p].launch_datetime)
               /\ ~IsWire(request[p].stop_datetime)

(***************************************************************************)
(* Properties of the elevation dataset (Spec).                             *)
(***************************************************************************)
\* C17: over any sequence of calls of ruaumoko_ds() in one process, the
\* elevation dataset is built once, on the first call, and every call
\* returns that one handle.
C17_ElevationDatasetBuiltOnce ==
    /\ elevation.built <= 1
    /\ \A p \in Workers : hist[p].handle \in {0, 1}

(***************************************************************************)
(* Properties of run_prediction's use of the dataset (Spec).               *)
(***************************************************************************)
\* C18: after _is_old_dataset, the dataset reference run_prediction opens
\* is the bucket instant of the launch and never the 'latest' keyword,
\* whether the bucket is inside the live window, in the index or missing,
\* and whatever dataset the caller named.
C18_OpensTheLaunchBucket ==
    \A p \in Workers :
        pc[p] = "open" =>
            /\ request[p].dataset # LATEST_DATASET_KEYWORD
            /\ request[p].dataset = request[p].dataset_time

\* C19: a request whose bucket is missing and outside the live window has
\* emitted both markers when it makes its dataset-open attempt; if that
\* open finds no dataset the request ends with InvalidDatasetException
\* before any solver call; no request makes more than one dataset-open
\* attempt or more than one solver call.
C19_MarkersThenOneOpen ==
    \A p \in Workers :
        /\ hist[p].opens <= 1
        /\ hist[p].solves <= 1
        /\ (hist[p].old /\ hist[p].opens = 1) =>
               MarkerPair(BucketOf(p)) \subseteq DOMAIN files
        /\ (hist[p].old /\ hist[p].opens = 1 /\ hist[p].cause = "IOError") =>
               /\ pc[p] = "done"
               /\ hist[p].raised = "InvalidDatasetException"
               /\ hist[p].solves = 0

(***************************************************************************)
(* Properties of the paths that are not a prediction (Spec).               *)
(***************************************************************************)
\* the request worker p holds is a load_datasets request, one of an
\* unrecognized type, or one parse_prediction_request rejects
NotAPrediction(p) ==
    \/ args[p].type \notin {Absent, Word("prediction")}
    \/ \A elev \in ElevationAnswers : ParsePredictionRequest(args[p], elev).exc # "none"

\* C20: a request that fails validation, a load_datasets request and a
\* request of an unrecognized type touch no marker, open no dataset and
\* call no solver; load_datasets answers the dataset index, and an
\* unrecognized type the plain value 'invalid request type'.
C20_OnlyPredictionsTouchMarkers ==
    \A p \in Workers :
        (pc[p] # "idle" /\ NotAPrediction(p)) =>
            /\ pc[p] = "done"
            /\ hist[p].attempted = {}
            /\ hist[p].wrote = {}
            /\ hist[p].opens = 0
            /\ hist[p].solves = 0
            /\ args[p].type = Word("load_datasets") =>
                   resp[p].kind = "datasets" /\ resp[p].datasets = index
            /\ args[p].type \notin {Absent, Word("prediction"), Word("load_datasets")} =>
                   resp[p].kind = "invalid request type"

\* a load_datasets request has been answered after an earlier request
\* created markers, and has touched none
C20_Witness ==
    \E p \in Workers :
        /\ args[p].type = Word("load_datasets")
        /\ resp[p].kind = "datasets"
        /\ files # NoFiles
        /\ hist[p].attempted = {}

====
